---- MODULE Spec2Model ----
(***************************************************************************)
(* VideoEffectsApp (src/public/js/webglApp.js, the class at lines 260-584): *)
(* the WebGL program with its hot-swappable fragment stage, the ml5        *)
(* detection loop with its fixed-capacity detection buffers, and the       *)
(* render loop that uploads the buffers as uniforms; and                   *)
(* generateShaderFromPrompt (src/unnamed/part_000), the request that       *)
(* produces new shader source.                                             *)
(*                                                                         *)
(* JavaScript runs every handler to completion on one thread, so each      *)
(* handler (a public method call, a backend-ready callback, a detect       *)
(* callback, a timer firing, an animation frame) is one action.            *)
(***************************************************************************)
EXTENDS Integers, Sequences, FiniteSets

(* ------------------------------ bounds --------------------------------- *)
\* number of setFragmentShader calls explored
MaxSwaps == 3
\* number of enableML5 calls that create a detector
MaxEnables == 2
\* number of detector.detect requests issued
MaxDetects == 3
\* number of generateShaderFromPrompt calls explored
MaxPrompts == 2

(* ------------------------- program constants --------------------------- *)
maxDetections == 16

(* --------------------------- the environment --------------------------- *)
\* Shader sources, by what the GL implementation answers for them:
\* "bad" fails to compile; "nolink" compiles but makes the link fail (for
\* instance a varying the vertex stage does not write); the others compile
\* and link.  "vertex" and "default" are the two sources of initWebGL.
Sources == {"bad", "nolink", "okA", "okB"}
CompileStatus(source) == source # "bad"
LinkStatus(source) == source \notin {"bad", "nolink"}

VARIABLES
  \* fields of VideoEffectsApp
  gl, program, vertexShader, fragmentShader,
  ml5Enabled, detector, nDetections, detectionBoxes, detectionClassIds,
  detectionScores, latestDetections, detectionInterval, detectionAdapter,
  detectAvgMs, detectCount,
  \* history: the latency samples of the cycles that applied results
  samples,
  \* state of the WebGL context
  glShaders,       \* sequence of shader objects, indexed by shader id
  glAttached,      \* the fragment shader attached to the program, 0 if none
  glLinked,        \* LINK_STATUS of the program
  glExecutable,    \* fragment shader of the executable installed by useProgram
  \* state of the host: ml5 and the timers
  ml5Present,      \* window.ml5 is defined
  readyPending,    \* detectors whose model-loaded callback has not run yet
  inFlight,        \* detect requests outstanding, per detector they were sent to
  timers,          \* ids of the setTimeout timers that have not fired
  nDetectors, nTimers, nDetects,
  \* position of init() and of the render loop
  initPc,
  \* history: the handler that ran last, its argument and its result
  lastOp, lastArg, lastRet, swaps,
  \* history: what the last animate() iteration handed to the GPU
  frame,
  \* the generateShaderFromPrompt calls: position of each and what it did
  gen

appVars == <<gl, program, vertexShader, fragmentShader, detectionAdapter>>
glVars == <<glShaders, glAttached, glLinked, glExecutable>>
bufferVars == <<nDetections, detectionBoxes, detectionClassIds, detectionScores,
                latestDetections>>
statVars == <<detectAvgMs, detectCount, samples>>
loopVars == <<ml5Enabled, detector, detectionInterval>>
hostVars == <<ml5Present, readyPending, inFlight, timers, nDetectors, nTimers,
              nDetects>>
histVars == <<lastOp, lastArg, lastRet>>

vars == <<appVars, glVars, bufferVars, statVars, loopVars, hostVars, histVars,
          initPc, swaps, frame, gen>>

(* ------------------------------ helpers -------------------------------- *)
\* the length of the list taken without the limit
MinLeft(a, b) == a

\* Math.min(a, b)
Min(a, b) == IF a < b THEN a ELSE b

\* new Float32Array(n): n zeros, indexed from 0
Float32Array(n) == [i \in 0 .. n - 1 |-> 0]

\* null for object references (shader, program, detector and timer ids are >= 1)
Null == 0

\* the record the history keeps of one animate() iteration
NoFrame ==
  [drawn |-> FALSE, frag |-> Null, adapterCalls |-> 0, numWritten |-> FALSE,
   arraysWritten |-> FALSE, nDetections |-> 0,
   detectionBoxes |-> Float32Array(4 * maxDetections),
   detectionClassIds |-> Float32Array(maxDetections),
   detectionScores |-> Float32Array(maxDetections),
   latestDetections |-> <<>>]

(* ---------------------------- constructor ------------------------------ *)
\* a generateShaderFromPrompt call not made yet: fetches counts the requests
\* sent to the completion endpoint, alerts the alert() boxes, errors the
\* onStatus('Error: ...') messages, onShaderCalls the onShader invocations
NoRequest ==
  [pc |-> "new", fetches |-> 0, alerts |-> 0, errors |-> 0, onShaderCalls |-> 0]

Init ==
  /\ gl = FALSE
  /\ program = Null
  /\ vertexShader = Null
  /\ fragmentShader = Null
  /\ ml5Enabled = FALSE
  /\ detector = Null
  /\ nDetections = 0
  /\ detectionBoxes = Float32Array(4 * maxDetections)
  /\ detectionClassIds = Float32Array(maxDetections)
  /\ detectionScores = Float32Array(maxDetections)
  /\ latestDetections = <<>>
  /\ detectionInterval = Null
  /\ detectionAdapter = FALSE
  /\ detectAvgMs = 0
  /\ detectCount = 0
  /\ samples = <<>>
  /\ glShaders = <<>>
  /\ glAttached = Null
  /\ glLinked = FALSE
  /\ glExecutable = Null
  /\ ml5Present \in BOOLEAN
  /\ readyPending = {}
  /\ inFlight = [d \in 1 .. MaxEnables |-> 0]
  /\ timers = {}
  /\ nDetectors = 0
  /\ nTimers = 0
  /\ nDetects = 0
  /\ initPc = "new"
  /\ lastOp = "constructor"
  /\ lastArg = "none"
  /\ lastRet = "none"
  /\ swaps = 0
  /\ frame = NoFrame
  /\ gen = [r \in 1 .. MaxPrompts |-> NoRequest]

(* ------------------------------ shaders -------------------------------- *)
\* createShader without the COMPILE_STATUS test: the shader is returned
\* whether it compiled or not
CreateShaderUnchecked(shaders, type, source) ==
  [shaders |-> Append(shaders, [type |-> type, source |-> source,
                                deleted |-> FALSE]),
   id |-> Len(shaders) + 1]

\* createShader(type, source): the shader table after the call and the value
\* returned: the new shader's id, or Null after deleting a shader that did
\* not compile.
CreateShader(shaders, type, source) ==
  LET id == Len(shaders) + 1
      ok == CompileStatus(source)
  IN  [shaders |-> Append(shaders, [type |-> type, source |-> source,
                                    deleted |-> ~ok]),
       id |-> IF ok THEN id ELSE Null]

\* gl.detachShader(program, shader) and gl.attachShader(program, shader) on
\* the program's fragment slot
DetachShader(attached, shader) == IF attached = shader THEN Null ELSE attached
AttachShader(attached, shader) == IF attached = Null THEN shader ELSE attached

\* gl.linkProgram(program): the link status it leaves
LinkProgram(shaders, attached) ==
  attached # Null /\ LinkStatus(shaders[attached].source)

\* the relinked program is never installed: the old executable stays in use
UseProgramStale(linked, attached, executable) == executable

\* gl.useProgram(program) after gl.linkProgram(program): a successful relink
\* of the program in use installs the new executable; after a failed link
\* useProgram raises INVALID_OPERATION and the installed executable stays.
UseProgram(linked, attached, executable) ==
  IF linked THEN attached ELSE executable

\* initWebGL()
InitWebGL ==
  LET v == CreateShader(glShaders, "vertex", "vertex")
      f == CreateShader(v.shaders, "fragment", "default")
      att == AttachShader(glAttached, f.id)
      linked == LinkProgram(f.shaders, att)
  IN  /\ gl' = TRUE
      /\ vertexShader' = v.id
      /\ fragmentShader' = f.id
      /\ program' = 1
      /\ glShaders' = f.shaders
      /\ glAttached' = att
      /\ glLinked' = linked
      /\ glExecutable' = UseProgram(linked, att, glExecutable)

\* setFragmentShader(source)
SetFragmentShader(source) ==
  /\ swaps < MaxSwaps
  /\ swaps' = swaps + 1
  /\ lastOp' = "setFragmentShader"
  /\ UNCHANGED gen
  /\ lastArg' = source
  /\ UNCHANGED <<gl, program, vertexShader, detectionAdapter, bufferVars,
                 statVars, loopVars, hostVars, initPc, frame>>
  /\ IF ~gl
     THEN \* this.gl is null: TypeError
          /\ lastRet' = "throw"
          /\ UNCHANGED <<fragmentShader, glVars>>
     ELSE LET c == CreateShader(glShaders, "fragment", source)
              newFrag == c.id
          IN  /\ glShaders' = c.shaders
              /\ IF newFrag = Null
                 THEN /\ lastRet' = "false"
                      /\ UNCHANGED <<fragmentShader, glAttached, glLinked,
                                     glExecutable>>
                 ELSE IF program # Null
                 THEN LET att == AttachShader(
                                   DetachShader(glAttached, fragmentShader),
                                   newFrag)
                          linked == LinkProgram(c.shaders, att)
                      IN  /\ glAttached' = att
                          /\ glLinked' = linked
                          /\ glExecutable' = UseProgram(linked, att, glExecutable)
                          /\ fragmentShader' = newFrag
                          /\ lastRet' = "true"
                 ELSE /\ lastRet' = "false"
                      /\ UNCHANGED <<fragmentShader, glAttached, glLinked,
                                     glExecutable>>

(* ------------------------------ init() --------------------------------- *)
\* animate() with the default mapping uploading the arrays whatever n is
AnimateAlwaysUploads(draws) ==
  frame' =
    IF gl /\ program # Null
    THEN [drawn |-> glLinked \/ draws,
          frag |-> IF glLinked \/ draws THEN glExecutable ELSE Null,
          adapterCalls |-> IF detectionAdapter THEN 1 ELSE 0,
          numWritten |-> ~detectionAdapter,
          arraysWritten |-> ~detectionAdapter,
          nDetections |-> nDetections,
          detectionBoxes |-> detectionBoxes,
          detectionClassIds |-> detectionClassIds,
          detectionScores |-> detectionScores,
          latestDetections |-> latestDetections]
    ELSE frame

\* animate(): one iteration of the render loop.  With a program whose last
\* link failed, WebGL implementations differ on drawArrays: some draw with
\* the executable still installed, some raise INVALID_OPERATION and draw
\* nothing; `draws` is that choice.
Animate(draws) ==
  frame' =
    IF gl /\ program # Null
    THEN [drawn |-> glLinked \/ draws,
          frag |-> IF glLinked \/ draws THEN glExecutable ELSE Null,
          adapterCalls |-> IF detectionAdapter THEN 1 ELSE 0,
          numWritten |-> ~detectionAdapter,
          arraysWritten |-> ~detectionAdapter /\ nDetections > 0,
          nDetections |-> nDetections,
          detectionBoxes |-> detectionBoxes,
          detectionClassIds |-> detectionClassIds,
          detectionScores |-> detectionScores,
          latestDetections |-> latestDetections]
    ELSE frame

\* init() up to its first await: initWebGL(), then startWebcam() asks for the
\* camera.  Without a WebGL context initWebGL throws.
InitCall(context) ==
  /\ initPc = "new"
  /\ lastOp' = "init"
  /\ UNCHANGED gen
  /\ lastArg' = "none"
  /\ UNCHANGED <<detectionAdapter, bufferVars, statVars, loopVars, hostVars,
                 swaps, frame>>
  /\ IF context
     THEN /\ InitWebGL
          /\ initPc' = "startWebcam"
          /\ lastRet' = "none"
     ELSE /\ initPc' = "failed"
          /\ lastRet' = "throw"
          /\ UNCHANGED <<gl, program, vertexShader, fragmentShader, glVars>>

\* startWebcam() resolves: init() goes on to the first animate()
WebcamStarted(draws) ==
  /\ initPc = "startWebcam"
  /\ initPc' = "running"
  /\ lastOp' = "animate"
  /\ UNCHANGED gen
  /\ lastArg' = "none"
  /\ lastRet' = "none"
  /\ Animate(draws)
  /\ UNCHANGED <<appVars, glVars, bufferVars, statVars, loopVars, hostVars,
                 swaps>>

\* init() swallowing the rejection and going on to animate()
WebcamFailedThenAnimate ==
  /\ initPc = "startWebcam"
  /\ initPc' = "failed"
  /\ lastOp' = "init"
  /\ UNCHANGED gen
  /\ lastArg' = "none"
  /\ lastRet' = "throw"
  /\ Animate(TRUE)
  /\ UNCHANGED <<appVars, glVars, bufferVars, statVars, loopVars, hostVars,
                 swaps>>

\* getUserMedia rejects: init() rejects and animate() is never reached
WebcamFailed ==
  /\ initPc = "startWebcam"
  /\ initPc' = "failed"
  /\ lastOp' = "init"
  /\ UNCHANGED gen
  /\ lastArg' = "none"
  /\ lastRet' = "throw"
  /\ UNCHANGED <<appVars, glVars, bufferVars, statVars, loopVars, hostVars,
                 swaps, frame>>

\* the requestAnimationFrame callback: the next animate()
AnimationFrame(draws) ==
  /\ initPc = "running"
  /\ lastOp' = "animate"
  /\ UNCHANGED gen
  /\ lastArg' = "none"
  /\ lastRet' = "none"
  /\ Animate(draws)
  /\ UNCHANGED <<appVars, glVars, bufferVars, statVars, loopVars, hostVars,
                 initPc, swaps>>

\* setDetectionAdapter(adapterFn): a function, or anything else
SetDetectionAdapter(isFunction) ==
  /\ detectionAdapter' = isFunction
  /\ lastOp' = "setDetectionAdapter"
  /\ UNCHANGED gen
  /\ lastArg' = "none"
  /\ lastRet' = "none"
  /\ UNCHANGED <<gl, program, vertexShader, fragmentShader, glVars, bufferVars,
                 statVars, loopVars, hostVars, initPc, swaps, frame>>

(* ---------------------------- detection ------------------------------ *)
\* One detection result is [confidence, x, y, width, height].  Pixel values
\* are integers; a confidence c stands for c / 2^25, so ConfOne is 1.0.
\* Undef is a missing confidence field.
Undef == -1
ConfOne == 2 ^ 25

\* (r.confidence || 0)
Confidence(r) == IF r.confidence = Undef THEN 0 ELSE r.confidence

\* Storing a number into a Float32Array rounds it to 24 significant bits,
\* ties to even (for 0 <= v <= 2^25: exact below 2^24, then to a multiple
\* of 2).
ToFloat32(v) ==
  IF v < 2 ^ 24 \/ v % 2 = 0 THEN v
  ELSE IF v % 4 = 1 THEN v - 1 ELSE v + 1

\* the copy of the results without the sort
SortNone(results) == results

\* a sort that is not stable: equal confidences come out in reverse order
SortTiesReversed(results) ==
  LET m == Len(results)
      rank(i) ==
        Cardinality({j \in 1 .. m :
                       \/ Confidence(results[j]) > Confidence(results[i])
                       \/ /\ Confidence(results[j]) = Confidence(results[i])
                          /\ j > i}) + 1
  IN  [k \in 1 .. m |-> results[CHOOSE i \in 1 .. m : rank(i) = k]]

\* [...results].sort((a, b) => (b.confidence || 0) - (a.confidence || 0)):
\* Array.prototype.sort is stable, so element i goes behind every element of
\* higher confidence and every earlier element of equal confidence.
SortByConfidence(results) ==
  LET m == Len(results)
      rank(i) ==
        Cardinality({j \in 1 .. m :
                       \/ Confidence(results[j]) > Confidence(results[i])
                       \/ /\ Confidence(results[j]) = Confidence(results[i])
                          /\ j < i}) + 1
  IN  [k \in 1 .. m |-> results[CHOOSE i \in 1 .. m : rank(i) = k]]

\* the for loop stopping one entry early
WriteBoxesShort(boxes, sorted, n) ==
  [p \in DOMAIN boxes |->
     IF p \div 4 < n - 1
     THEN LET r == sorted[(p \div 4) + 1]
          IN  ToFloat32(CASE p % 4 = 0 -> r.x
                          [] p % 4 = 1 -> r.y
                          [] p % 4 = 2 -> r.width
                          [] OTHER -> r.height)
     ELSE boxes[p]]

\* the for loop of the detect callback: entry i of the buffers from sorted[i]
WriteBoxes(boxes, sorted, n) ==
  [p \in DOMAIN boxes |->
     IF p \div 4 < n
     THEN LET r == sorted[(p \div 4) + 1]
          IN  ToFloat32(CASE p % 4 = 0 -> r.x
                          [] p % 4 = 1 -> r.y
                          [] p % 4 = 2 -> r.width
                          [] OTHER -> r.height)
     ELSE boxes[p]]

WriteClassIds(classIds, sorted, n) ==
  [i \in DOMAIN classIds |-> IF i < n THEN 0 ELSE classIds[i]]

WriteScores(scores, sorted, n) ==
  [i \in DOMAIN scores |->
     IF i < n THEN ToFloat32(Confidence(sorted[i + 1])) ELSE scores[i]]

\* detectAvgMs is kept in units of 1 / AvgScale ms, which keeps
\* 0.9 * avg + 0.1 * dt exact for MaxDetects samples
AvgScale == 10 ^ MaxDetects

NextAvgSwapped(avg, dt) ==
  IF avg # 0 THEN (avg + 9 * dt * AvgScale) \div 10 ELSE dt * AvgScale

\* this._detectAvgMs ? (0.9 * this._detectAvgMs + 0.1 * dt) : dt
NextAvg(avg, dt) ==
  IF avg # 0 THEN (9 * avg + dt * AvgScale) \div 10 ELSE dt * AvgScale

\* detectLoop without its first line: a request is sent to the detector
\* created last, enabled or not
DetectLoopUnguarded ==
  IF nDetectors = 0
  THEN UNCHANGED <<inFlight, nDetects>>
  ELSE /\ nDetects < MaxDetects
       /\ nDetects' = nDetects + 1
       /\ inFlight' = [inFlight EXCEPT ![nDetectors] = @ + 1]

\* detectLoop(): sends one detect request to this.detector, unless disabled
\* (this.video is the page's video element, set by the constructor)
DetectLoop ==
  IF ~ml5Enabled \/ detector = Null
  THEN UNCHANGED <<inFlight, nDetects>>
  ELSE /\ nDetects < MaxDetects
       /\ nDetects' = nDetects + 1
       /\ inFlight' = [inFlight EXCEPT ![detector] = @ + 1]

\* enableML5 without the test of ml5Enabled
EnableML5Unguarded ==
  /\ lastOp' = "enableML5"
  /\ UNCHANGED gen
  /\ lastArg' = "none"
  /\ lastRet' = IF ml5Enabled \/ ~ml5Present THEN "none" ELSE "created"
  /\ UNCHANGED <<appVars, glVars, bufferVars, statVars, detectionInterval,
                 ml5Present, inFlight, timers, nTimers, nDetects, initPc,
                 swaps, frame>>
  /\ IF ~ml5Present
     THEN UNCHANGED <<ml5Enabled, detector, readyPending, nDetectors>>
     ELSE /\ nDetectors < MaxEnables
          /\ ml5Enabled' = TRUE
          /\ nDetectors' = nDetectors + 1
          /\ detector' = nDetectors + 1
          /\ readyPending' = readyPending \cup {nDetectors + 1}

\* enableML5()
EnableML5 ==
  /\ lastOp' = "enableML5"
  /\ UNCHANGED gen
  /\ lastArg' = "none"
  /\ lastRet' = IF ml5Enabled \/ ~ml5Present THEN "none" ELSE "created"
  /\ UNCHANGED <<appVars, glVars, bufferVars, statVars, detectionInterval,
                 ml5Present, inFlight, timers, nTimers, nDetects, initPc,
                 swaps, frame>>
  /\ IF ml5Enabled \/ ~ml5Present
     THEN UNCHANGED <<ml5Enabled, detector, readyPending, nDetectors>>
     ELSE /\ nDetectors < MaxEnables
          /\ ml5Enabled' = TRUE
          /\ nDetectors' = nDetectors + 1
          /\ detector' = nDetectors + 1
          /\ readyPending' = readyPending \cup {nDetectors + 1}

\* disableML5 without the clearTimeout block
DisableML5KeepsTimer ==
  /\ lastOp' = "disableML5"
  /\ UNCHANGED gen
  /\ lastArg' = "none"
  /\ lastRet' = IF ml5Enabled THEN "cleared" ELSE "none"
  /\ UNCHANGED <<appVars, glVars, detectionBoxes, detectionClassIds,
                 detectionScores, latestDetections, statVars, ml5Present,
                 readyPending, inFlight, nDetectors, nTimers, nDetects, initPc,
                 swaps, frame, detectionInterval, timers>>
  /\ IF ~ml5Enabled
     THEN UNCHANGED <<ml5Enabled, nDetections, detector>>
     ELSE /\ ml5Enabled' = FALSE
          /\ nDetections' = 0
          /\ detector' = Null

\* disableML5()
DisableML5 ==
  /\ lastOp' = "disableML5"
  /\ UNCHANGED gen
  /\ lastArg' = "none"
  /\ lastRet' = IF ml5Enabled THEN "cleared" ELSE "none"
  /\ UNCHANGED <<appVars, glVars, detectionBoxes, detectionClassIds,
                 detectionScores, latestDetections, statVars, ml5Present,
                 readyPending, inFlight, nDetectors, nTimers, nDetects, initPc,
                 swaps, frame>>
  /\ IF ~ml5Enabled
     THEN UNCHANGED <<ml5Enabled, nDetections, detectionInterval, timers,
                     detector>>
     ELSE /\ ml5Enabled' = FALSE
          /\ nDetections' = 0
          /\ IF detectionInterval # Null
             THEN /\ timers' = timers \ {detectionInterval}
                  /\ detectionInterval' = Null
             ELSE UNCHANGED <<timers, detectionInterval>>
          /\ detector' = Null

\* the callback given to ml5.objectDetector: the model of detector d loaded
DetectorReady(d) ==
  /\ d \in readyPending
  /\ readyPending' = readyPending \ {d}
  /\ DetectLoop
  /\ lastOp' = "detectorReady"
  /\ UNCHANGED gen
  /\ lastArg' = "none"
  /\ lastRet' = "none"
  /\ UNCHANGED <<appVars, glVars, bufferVars, statVars, loopVars, ml5Present,
                 timers, nDetectors, nTimers, initPc, swaps, frame>>

\* the setTimeout(this.detectLoop, 100) timer t fires
TimerFires(t) ==
  /\ t \in timers
  /\ timers' = timers \ {t}
  /\ DetectLoop
  /\ lastOp' = "timer"
  /\ UNCHANGED gen
  /\ lastArg' = "none"
  /\ lastRet' = "none"
  /\ UNCHANGED <<appVars, glVars, bufferVars, statVars, loopVars, ml5Present,
                 readyPending, nDetectors, nTimers, initPc, swaps, frame>>

SkipCycleClears ==
  /\ nDetections' = 0
  /\ latestDetections' = <<>>
  /\ UNCHANGED <<detectionBoxes, detectionClassIds, detectionScores, statVars>>

\* the callback when err is set or results is missing: the if is skipped
SkipCycle == UNCHANGED <<bufferVars, statVars>>

ScheduleNextNever == UNCHANGED <<nTimers, detectionInterval, timers>>

\* this.detectionInterval = setTimeout(this.detectLoop, 100)
ScheduleNext ==
  /\ nTimers' = nTimers + 1
  /\ detectionInterval' = nTimers + 1
  /\ timers' = timers \cup {nTimers + 1}

\* the callback of a detect request sent to detector d: ok is
\* (!err && results), dt the time since the request was sent
DetectCallback(d, ok, results, dt) ==
  /\ inFlight[d] > 0
  /\ inFlight' = [inFlight EXCEPT ![d] = @ - 1]
  /\ IF ok
     THEN \E sorted \in {SortByConfidence(results)} :
          LET n == Min(Len(sorted), maxDetections)
          IN  /\ latestDetections' = results
              /\ nDetections' = n
              /\ detectionBoxes' = WriteBoxes(detectionBoxes, sorted, n)
              /\ detectionClassIds' = WriteClassIds(detectionClassIds, sorted, n)
              /\ detectionScores' = WriteScores(detectionScores, sorted, n)
              /\ detectAvgMs' = NextAvg(detectAvgMs, dt)
              /\ detectCount' = detectCount + 1
              /\ samples' = Append(samples, dt)
     ELSE SkipCycle
  /\ ScheduleNext
  /\ lastOp' = "detectCallback"
  /\ UNCHANGED gen
  /\ lastArg' = IF d = detector THEN "current" ELSE "stale"
  /\ lastRet' = IF ok THEN "applied" ELSE "skipped"
  /\ UNCHANGED <<appVars, glVars, ml5Enabled, detector, ml5Present,
                 readyPending, nDetectors, nDetects, initPc, swaps, frame>>

(* ------------------------ shader generation ---------------------------- *)
\* the catch block with a fallback that hands the current shader to onShader
GenCatchFallback(g) ==
  [g EXCEPT !.pc = "caught", !.errors = @ + 1, !.alerts = @ + 1,
            !.onShaderCalls = @ + 1]

\* catch (e): console.error, onStatus('Error: ...'), alert
GenCatch(g) ==
  [g EXCEPT !.pc = "caught", !.errors = @ + 1, !.alerts = @ + 1]

\* no handler of generateShaderFromPrompt touches the VideoEffectsApp
GenStep ==
  /\ lastOp' = "generateShaderFromPrompt"
  /\ lastArg' = "none"
  /\ lastRet' = "none"
  /\ UNCHANGED <<appVars, glVars, bufferVars, statVars, loopVars, hostVars,
                 initPc, swaps, frame>>

\* generateShaderFromPrompt(...) up to its first await: without an API key
\* it alerts and returns, otherwise it awaits loadMetaPrompt()
GenerateShaderFromPrompt(r, apiKey) ==
  /\ gen[r].pc = "new"
  /\ gen' = [gen EXCEPT ![r] =
               IF apiKey THEN [@ EXCEPT !.pc = "metaPrompt"]
               ELSE [@ EXCEPT !.pc = "returned", !.alerts = @ + 1]]
  /\ GenStep

\* loadMetaPrompt() resolves (with the file or with the built-in text):
\* the request is sent with fetch
MetaPromptLoaded(r) ==
  /\ gen[r].pc = "metaPrompt"
  /\ gen' = [gen EXCEPT ![r] = [@ EXCEPT !.pc = "fetch", !.fetches = @ + 1]]
  /\ GenStep

\* the fetch settles: rejected (network error), a response with !resp.ok
\* (its text is awaited), or a response with resp.ok (its JSON is awaited)
FetchSettled(r, outcome) ==
  /\ gen[r].pc = "fetch"
  /\ gen' = [gen EXCEPT ![r] =
               CASE outcome = "rejected" -> GenCatch(@)
                 [] outcome = "notOk" -> [@ EXCEPT !.pc = "errorText"]
                 [] outcome = "ok" -> [@ EXCEPT !.pc = "json"]]
  /\ GenStep

\* resp.text() of a !resp.ok response settles: the Error is thrown
ErrorTextRead(r) ==
  /\ gen[r].pc = "errorText"
  /\ gen' = [gen EXCEPT ![r] = GenCatch(@)]
  /\ GenStep

\* resp.json() settles: parsed, the shader is extracted and handed to
\* onShader if the caller gave one; rejected, the catch block runs
BodyParsed(r, parsed, onShader) ==
  /\ gen[r].pc = "json"
  /\ gen' = [gen EXCEPT ![r] =
               IF parsed
               THEN [@ EXCEPT !.pc = "done",
                              !.onShaderCalls = IF onShader THEN @ + 1 ELSE @]
               ELSE GenCatch(@)]
  /\ GenStep

NextGenerate ==
  \/ \E context \in BOOLEAN : InitCall(context)
  \/ \E draws \in BOOLEAN : WebcamStarted(draws)
  \/ WebcamFailed
  \/ \E r \in 1 .. MaxPrompts, apiKey \in BOOLEAN :
       GenerateShaderFromPrompt(r, apiKey)
  \/ \E r \in 1 .. MaxPrompts : MetaPromptLoaded(r)
  \/ \E r \in 1 .. MaxPrompts, outcome \in {"rejected", "notOk", "ok"} :
       FetchSettled(r, outcome)
  \/ \E r \in 1 .. MaxPrompts : ErrorTextRead(r)
  \/ \E r \in 1 .. MaxPrompts, parsed \in BOOLEAN, onShader \in BOOLEAN :
       BodyParsed(r, parsed, onShader)

SpecGenerate == Init /\ [][NextGenerate]_vars

(* ------------------------- render specification ------------------------ *)
NextRender ==
  \/ \E context \in BOOLEAN : InitCall(context)
  \/ \E draws \in BOOLEAN : WebcamStarted(draws)
  \/ WebcamFailed
  \/ \E draws \in BOOLEAN : AnimationFrame(draws)
  \/ \E source \in Sources : SetFragmentShader(source)
  \/ \E isFunction \in BOOLEAN : SetDetectionAdapter(isFunction)

SpecRender == Init /\ [][NextRender]_vars

(* ------------------------ detection specification ---------------------- *)
\* The detection results the host may answer with.  Result i of a list has
\* x = i, its place in the list, so that a buffer entry tells which result it
\* was written from; y is a value a Float32Array cannot hold exactly.
Patterns == {"asc", "desc", "tie", "mix"}

ConfAt(pat, i) ==
  CASE pat = "asc" -> i * 2 ^ 20
    [] pat = "desc" -> ConfOne - i * 2 ^ 20
    [] pat = "tie" -> 2 ^ 24
    [] OTHER -> CASE i % 4 = 0 -> Undef
                  [] i % 4 = 1 -> 2 ^ 24 + 1
                  [] i % 4 = 2 -> 2 ^ 24
                  [] OTHER -> 0

MakeList(m, pat) ==
  [i \in 1 .. m |->
     [confidence |-> ConfAt(pat, i), x |-> i, y |-> 2 ^ 24 + i,
      width |-> 10 * i, height |-> 7]]

ListLens == {0, 1, 2, maxDetections, maxDetections + 1, maxDetections + 4}
AllLists == {MakeList(m, pat) : m \in ListLens, pat \in Patterns}
SmallLists == {MakeList(0, "asc"), MakeList(3, "asc"), MakeList(2, "mix")}

\* latencies of a detect request, in ms
Latencies == {0, 10, 20, 30}
LoopLatencies == {10}

NextDetect ==
  \/ InitCall(TRUE)
  \/ \E draws \in BOOLEAN : WebcamStarted(draws)
  \/ \E draws \in BOOLEAN : AnimationFrame(draws)
  \/ \E isFunction \in BOOLEAN : SetDetectionAdapter(isFunction)
  \/ EnableML5
  \/ DisableML5
  \/ \E d \in readyPending : DetectorReady(d)
  \/ \E t \in timers : TimerFires(t)
  \/ \E d \in DOMAIN inFlight, results \in SmallLists, dt \in LoopLatencies :
       DetectCallback(d, TRUE, results, dt)
  \/ \E d \in DOMAIN inFlight : DetectCallback(d, FALSE, <<>>, 0)

SpecDetect == Init /\ [][NextDetect]_vars

\* the detect callback on every result list, without disableML5
NextTopK ==
  \/ EnableML5
  \/ \E d \in readyPending : DetectorReady(d)
  \/ \E t \in timers : TimerFires(t)
  \/ \E d \in DOMAIN inFlight, results \in AllLists, dt \in LoopLatencies :
       DetectCallback(d, TRUE, results, dt)

SpecTopK == Init /\ [][NextTopK]_vars

\* the latency statistics: every latency of Latencies on short lists, with
\* failed cycles and disable/enable between the samples
StatLists == {MakeList(0, "asc"), MakeList(1, "asc")}

NextStats ==
  \/ EnableML5
  \/ DisableML5
  \/ \E d \in readyPending : DetectorReady(d)
  \/ \E t \in timers : TimerFires(t)
  \/ \E d \in DOMAIN inFlight, results \in StatLists, dt \in Latencies :
       DetectCallback(d, TRUE, results, dt)
  \/ \E d \in DOMAIN inFlight : DetectCallback(d, FALSE, <<>>, 10)

SpecStats == Init /\ [][NextStats]_vars

\* the detection loop on its own, with the scheduling the browser and ml5
\* provide: a loaded model is announced, a timer that is due fires, and a
\* detect request is answered (with results or with an error)
NextLoop ==
  \/ EnableML5
  \/ DisableML5
  \/ \E d \in readyPending : DetectorReady(d)
  \/ \E t \in timers : TimerFires(t)
  \/ \E d \in DOMAIN inFlight, results \in StatLists, dt \in LoopLatencies :
       DetectCallback(d, TRUE, results, dt)
  \/ \E d \in DOMAIN inFlight : DetectCallback(d, FALSE, <<>>, 10)

FairLoop ==
  /\ WF_vars(\E d \in readyPending : DetectorReady(d))
  /\ WF_vars(\E t \in timers : TimerFires(t))
  /\ WF_vars(\E d \in DOMAIN inFlight, ok \in BOOLEAN, results \in StatLists :
               DetectCallback(d, ok, results, 10))

SpecLoop == Init /\ [][NextLoop]_vars /\ FairLoop

\* the capacity of the buffers: result lists below, at and above
\* maxDetections, with failed cycles and disable/enable between them
CapLists ==
  {MakeList(m, "desc") :
     m \in {0, maxDetections, maxDetections + 1, maxDetections + 4}}

NextCap ==
  \/ EnableML5
  \/ DisableML5
  \/ \E d \in readyPending : DetectorReady(d)
  \/ \E t \in timers : TimerFires(t)
  \/ \E d \in DOMAIN inFlight, results \in CapLists, dt \in LoopLatencies :
       DetectCallback(d, TRUE, results, dt)
  \/ \E d \in DOMAIN inFlight : DetectCallback(d, FALSE, <<>>, 10)

SpecCap == Init /\ [][NextCap]_vars

(* ============================== claims ================================= *)

\* C1: a setFragmentShader(source) call whose candidate does not compile
\* returns false and leaves the program, the attached fragment stage, the
\* link status, the installed executable and this.fragmentShader as they
\* were; the animate() iteration that follows draws with that executable.
C1_CompileFailureKeepsProgram ==
  [][/\ (lastOp' = "setFragmentShader" /\ gl /\ ~CompileStatus(lastArg'))
        => /\ lastRet' = "false"
           /\ program' = program
           /\ fragmentShader' = fragmentShader
           /\ glAttached' = glAttached
           /\ glLinked' = glLinked
           /\ glExecutable' = glExecutable
     /\ (/\ lastOp = "setFragmentShader" /\ lastRet = "false"
         /\ lastOp' = "animate" /\ frame'.drawn)
        => frame'.frag = glExecutable]_vars

C1_Witness ==
  /\ lastOp = "setFragmentShader"
  /\ lastArg = "bad"
  /\ lastRet = "false"
  /\ initPc = "running"
  /\ swaps >= 2
  /\ glShaders[glExecutable].source = "okA"

\* C2 (as claimed): a setFragmentShader(source) call whose candidate compiles
\* but whose relink fails does not report success and leaves the prior
\* fragment stage attached and tracked and the program linked and in use.
C2_LinkFailureAbortsSwap ==
  [][(/\ lastOp' = "setFragmentShader" /\ gl
      /\ CompileStatus(lastArg') /\ ~LinkStatus(lastArg'))
     => /\ lastRet' # "true"
        /\ fragmentShader' = fragmentShader
        /\ glAttached' = glAttached
        /\ glLinked' = glLinked
        /\ glExecutable' = glExecutable]_vars

\* C9: when a setFragmentShader call has compiled and linked its candidate,
\* the animate() iteration that follows draws with the new fragment stage; and
\* every iteration on a linked program draws with the fragment stage that is
\* this.fragmentShader when the iteration runs.
C9_SwapActiveOnNextFrame ==
  [][/\ (/\ lastOp = "setFragmentShader" /\ lastRet = "true"
         /\ LinkStatus(lastArg) /\ lastOp' = "animate")
        => /\ frame'.drawn
           /\ frame'.frag = fragmentShader
           /\ glShaders[frame'.frag].source = lastArg
     /\ (lastOp' = "animate" /\ glLinked)
        => /\ frame'.drawn
           /\ frame'.frag = fragmentShader
           /\ frame'.frag = glAttached]_vars

C9_Witness ==
  /\ lastOp = "animate"
  /\ frame.drawn
  /\ swaps >= 2
  /\ frame.frag = fragmentShader
  /\ glShaders[frame.frag].source = "okB"

\* the fragment shader objects that are not deleted
LiveFragments(shaders) ==
  {id \in 1 .. Len(shaders) :
     shaders[id].type = "fragment" /\ ~shaders[id].deleted}

\* C10 (as claimed): a setFragmentShader call that compiles and links its
\* candidate deletes the fragment stage it replaces, so that the only
\* fragment shader object not deleted is the one attached to the program.
C10_PreviousStageReleased ==
  [][(/\ lastOp' = "setFragmentShader" /\ lastRet' = "true"
      /\ LinkStatus(lastArg'))
     => /\ fragmentShader \notin LiveFragments(glShaders')
        /\ LiveFragments(glShaders') = {glAttached'}]_vars

\* detect requests outstanding, over all detectors
RECURSIVE SumUpTo(_, _)
SumUpTo(f, k) == IF k = 0 THEN 0 ELSE f[k] + SumUpTo(f, k - 1)
Outstanding == SumUpTo(inFlight, MaxEnables)

\* C3 (as claimed): the callback of a detect request that was in flight when
\* disableML5() ran (the detector it was sent to is no longer this.detector)
\* changes none of nDetections, the three arrays and latestDetections.
C3_StaleCallbackNoOp ==
  [][(lastOp' = "detectCallback" /\ lastArg' = "stale")
     => UNCHANGED bufferVars]_vars

\* C4 (as claimed): at most one detect request is outstanding, and at most
\* one loop chain (a request outstanding or a detectLoop timer pending).
C4_NoOverlappingDetect ==
  /\ Outstanding <= 1
  /\ Outstanding + Cardinality(timers) <= 1

\* C5 (as claimed): while detection is disabled no detectLoop timer is
\* pending.
C5_NoTimerWhileDisabled ==
  ~ml5Enabled => timers = {}

\* C7 (as claimed): an enableML5() that enables detection starts from
\* nDetections = 0 and an empty latency average.
C7_EnableStartsFresh ==
  [][(lastOp' = "enableML5" /\ ~ml5Enabled /\ ml5Enabled')
     => (nDetections' = 0 /\ detectAvgMs' = 0)]_vars

\* The n buffer entries 0 .. n-1 hold n distinct results of the list `latest`,
\* each with its box and score as a Float32Array stores them, and no result
\* left out has a higher confidence than one kept.  (Result i of a list has
\* x = i, so boxes[4e] names the result entry e was written from.)
HoldsTopOf(latest, n, boxes, classIds, scores) ==
  LET m == Len(latest)
      src(e) == boxes[4 * e]
      kept == {src(e) : e \in 0 .. n - 1}
  IN  /\ n = Min(m, maxDetections)
      /\ kept \subseteq 1 .. m
      /\ Cardinality(kept) = n
      /\ \A e \in 0 .. n - 1 :
           /\ boxes[4 * e + 1] = ToFloat32(latest[src(e)].y)
           /\ boxes[4 * e + 2] = ToFloat32(latest[src(e)].width)
           /\ boxes[4 * e + 3] = ToFloat32(latest[src(e)].height)
           /\ scores[e] = ToFloat32(Confidence(latest[src(e)]))
           /\ classIds[e] = 0
      /\ \A j \in (1 .. m) \ kept : \A i \in kept :
           Confidence(latest[j]) <= Confidence(latest[i])

\* C6: after the detect callback has applied a result list of size m,
\* nDetections = min(m, 16) and entries 0 .. nDetections-1 are the
\* nDetections highest-confidence results, box and score of each.
C6_TopKByConfidence ==
  (lastOp = "detectCallback" /\ lastRet = "applied")
    => HoldsTopOf(latestDetections, nDetections, detectionBoxes,
                  detectionClassIds, detectionScores)

C6_Witness ==
  /\ lastOp = "detectCallback"
  /\ lastRet = "applied"
  /\ Len(latestDetections) = maxDetections + 1
  /\ nDetections = maxDetections
  /\ \E i, j \in 1 .. Len(latestDetections) :
       latestDetections[i].confidence # latestDetections[j].confidence
  /\ detectCount = 2

\* C8: the nDetections and the valid entries of the three arrays that an
\* animate() iteration hands to the adapter or uploads come from one buffer
\* update: the one that stored latestDetections.
C8_FrameSeesOneUpdate ==
  (frame.drawn /\ frame.nDetections > 0)
    => HoldsTopOf(frame.latestDetections, frame.nDetections,
                  frame.detectionBoxes, frame.detectionClassIds,
                  frame.detectionScores)

C8_Witness ==
  /\ lastOp = "animate"
  /\ frame.drawn
  /\ frame.nDetections = 2
  /\ frame.adapterCalls = 1
  /\ detectCount = 2
  /\ ~ml5Enabled
\* C11: once disableML5() has cleared the buffer, nDetections is 0 and the
\* next animate() iteration shows its consumer no entry produced before the
\* clear: the default mapping uploads no array, and the context handed to an
\* installed adapter holds no earlier entry in any field, its
\* latestDetections list included.
C11_ClearHidesEarlierEntries ==
  [][ /\ (lastOp' = "disableML5" /\ lastRet' = "cleared") => nDetections' = 0
      /\ (lastOp = "disableML5" /\ lastRet = "cleared" /\ lastOp' = "animate")
           => /\ frame'.nDetections = 0
              /\ ~frame'.arraysWritten
              /\ frame'.adapterCalls = 1 => frame'.latestDetections = <<>>
    ]_vars

\* the example of C12: samples 10, 20, 30 give averages 10, 11, 12.9
EmaExample(s, avg) ==
  /\ s = <<10>> => avg = 10 * AvgScale
  /\ s = <<10, 20>> => avg = 11 * AvgScale
  /\ s = <<10, 20, 30>> => 10 * avg = 129 * AvgScale

\* C12: a cycle that applies results with latency sample d makes the average
\* d when it was empty (0) and 0.9 * previous + 0.1 * d otherwise, and adds
\* exactly 1 to _detectCount; no step decreases _detectCount; samples
\* 10, 20, 30 from an empty average give 10, 11, 12.9.
C12_LatencyAverage ==
  [][ /\ detectCount' >= detectCount
      /\ (lastOp' = "detectCallback" /\ lastRet' = "applied")
           => /\ Len(samples') = Len(samples) + 1
              /\ detectCount' = detectCount + 1
              /\ IF detectAvgMs = 0
                 THEN detectAvgMs' = samples'[Len(samples')] * AvgScale
                 ELSE 10 * detectAvgMs' =
                        9 * detectAvgMs + samples'[Len(samples')] * AvgScale
      /\ EmaExample(samples', detectAvgMs')
    ]_vars

C12_Witness ==
  /\ samples = <<10, 20, 30>>
  /\ detectCount = 3
  /\ 10 * detectAvgMs = 129 * AvgScale

\* C13: a detect callback that reports an error or brings no results leaves
\* nDetections, the three arrays, latestDetections and the latency
\* statistics as they were.
C13_FailedCycleKeepsState ==
  [][ (lastOp' = "detectCallback" /\ lastRet' = "skipped")
        => UNCHANGED <<nDetections, detectionBoxes, detectionClassIds,
                       detectionScores, latestDetections, detectAvgMs,
                       detectCount>>
    ]_vars

C13_Witness ==
  /\ lastOp = "detectCallback"
  /\ lastRet = "skipped"
  /\ nDetections > 0
  /\ detectCount > 0

\* a request that failed: no API key, or the catch block ran
GenFailed(g) == g.pc \in {"returned", "caught"}

\* C14: a generateShaderFromPrompt request that fails (no API key, fetch
\* rejected, response not ok) never invokes onShader, shows its message
\* exactly once, sends at most one request and none after the failure; no
\* step of it changes the program, the buffers or the detection loop.
C14_FailedGenerationIsInert ==
  [][ /\ \A r \in 1 .. MaxPrompts :
           /\ GenFailed(gen'[r])
                => /\ gen'[r].onShaderCalls = 0
                   /\ gen'[r].alerts = 1
                   /\ gen'[r].fetches <= 1
           /\ GenFailed(gen[r]) => gen'[r] = gen[r]
      /\ lastOp' = "generateShaderFromPrompt"
           => UNCHANGED <<appVars, glVars, bufferVars, statVars, loopVars>>
    ]_vars

C14_Witness ==
  /\ program # Null
  /\ gen[1].pc = "returned" /\ gen[1].fetches = 0
  /\ gen[2].pc = "caught" /\ gen[2].fetches = 1 /\ gen[2].errors = 1

\* C16: when no WebGL context is available or the camera cannot be acquired,
\* init() ends by throwing to its caller, no animate() iteration has run or
\* ever runs, and init() stays failed (nothing is attempted again).
C16_SetupFailureStopsStart ==
  [][ /\ (initPc # "failed" /\ initPc' = "failed")
           => (lastOp' = "init" /\ lastRet' = "throw")
      /\ initPc' = "failed" => (frame' = NoFrame /\ lastOp' # "animate")
      /\ initPc = "failed" => initPc' = "failed"
    ]_vars

C16_Witness ==
  /\ initPc = "failed"
  /\ gl /\ program # Null
  /\ lastOp = "setFragmentShader"

\* C19: an animate() iteration without an adapter writes u_numDetections
\* with the current nDetections and uploads the three arrays exactly when
\* nDetections > 0; with an adapter it calls the adapter exactly once and
\* writes none of the default uniforms.
C19_UniformMapping ==
  [][ lastOp' = "animate"
        => IF detectionAdapter
           THEN /\ frame'.adapterCalls = 1
                /\ ~frame'.numWritten
                /\ ~frame'.arraysWritten
           ELSE /\ frame'.adapterCalls = 0
                /\ frame'.numWritten
                /\ frame'.nDetections = nDetections
                /\ frame'.arraysWritten <=> (nDetections > 0)
    ]_vars

C19_Witness ==
  /\ lastOp = "animate"
  /\ ~detectionAdapter
  /\ frame.numWritten
  /\ ~frame.arraysWritten
  /\ frame.nDetections = 0
  /\ latestDetections # <<>>

\* C20: among results of equal confidence the buffer keeps the original
\* order: two kept entries of equal confidence appear in the order of the
\* result list, and a result left out never precedes, in the result list, a
\* kept one of the same confidence.
C20_TiesKeepOriginalOrder ==
  LET m == Len(latestDetections)
      src(e) == detectionBoxes[4 * e]
      kept == {src(e) : e \in 0 .. nDetections - 1}
      conf(i) == Confidence(latestDetections[i])
  IN  (lastOp = "detectCallback" /\ lastRet = "applied")
        => /\ kept \subseteq 1 .. m
           /\ \A e1, e2 \in 0 .. nDetections - 1 :
                (e1 < e2 /\ conf(src(e1)) = conf(src(e2))) => src(e1) < src(e2)
           /\ \A i \in kept : \A j \in (1 .. m) \ kept :
                conf(i) = conf(j) => i < j

C20_Witness ==
  /\ lastOp = "detectCallback"
  /\ lastRet = "applied"
  /\ latestDetections = MakeList(maxDetections + 4, "tie")
  /\ nDetections = maxDetections
  /\ \A e \in 0 .. nDetections - 1 : detectionBoxes[4 * e] = e + 1

\* C17: every completed detect cycle, applied or skipped, sets exactly one
\* new timer, and a timer firing while detection is enabled sends exactly
\* one request; so, with every request answered and every timer firing,
\* while detection stays enabled another request always follows (up to the
\* MaxDetects requests explored).
C17_LoopKeepsRequesting ==
  /\ [][ /\ lastOp' = "detectCallback"
              => /\ timers \subseteq timers'
                 /\ Cardinality(timers') = Cardinality(timers) + 1
         /\ (lastOp' = "timer" /\ ml5Enabled /\ detector # Null)
              => nDetects' = nDetects + 1
       ]_vars
  /\ \A k \in 0 .. MaxDetects - 1 :
       (ml5Enabled /\ nDetects = k) ~> (~ml5Enabled \/ nDetects > k)

C17_Witness ==
  /\ ml5Enabled
  /\ nDetectors = 1
  /\ nDetects = MaxDetects
  /\ lastOp = "timer"
  /\ detectCount = 1

\* C18: if detection is disabled and never enabled again, then from some
\* point on no detect request is outstanding and no timer is pending, and
\* no request is sent while detection is disabled.
C18_DisabledLoopGoesIdle ==
  /\ [][~ml5Enabled => nDetects' = nDetects]_vars
  /\ (<>[](~ml5Enabled)) => <>[](Outstanding = 0 /\ timers = {})

C18_Witness ==
  /\ ~ml5Enabled
  /\ lastOp = "timer"
  /\ nDetects > 0
  /\ Outstanding = 0
  /\ timers = {}

\* C21: in every reachable state 0 <= nDetections <= maxDetections, and the
\* three buffer arrays have the lengths the constructor gave them
\* (4 * maxDetections, maxDetections, maxDetections).
C21_CountWithinCapacity ==
  /\ nDetections \in 0 .. maxDetections
  /\ DOMAIN detectionBoxes = 0 .. 4 * maxDetections - 1
  /\ DOMAIN detectionClassIds = 0 .. maxDetections - 1
  /\ DOMAIN detectionScores = 0 .. maxDetections - 1

C21_Witness ==
  /\ lastOp = "detectCallback"
  /\ lastRet = "applied"
  /\ nDetectors = 2
  /\ Len(latestDetections) = maxDetections + 4
  /\ nDetections = maxDetections
  /\ detectCount = 2

\* C22: disableML5() called while enabled cancels the timer held in
\* detectionInterval and sets detectionInterval to null, sets nDetections
\* to 0 and drops the detector, and leaves the contents of the three arrays
\* and the program as they were; called while disabled it changes nothing.
C22_DisableFrame ==
  [][ lastOp' = "disableML5"
        => IF ml5Enabled
           THEN /\ ~ml5Enabled'
                /\ detectionInterval' = Null
                /\ timers' = timers \ {detectionInterval}
                /\ nDetections' = 0
                /\ detector' = Null
                /\ UNCHANGED <<detectionBoxes, detectionClassIds,
                               detectionScores, appVars, glVars>>
           ELSE UNCHANGED <<appVars, glVars, bufferVars, statVars, loopVars,
                            hostVars, initPc, swaps, frame, gen>>
    ]_vars

C22_Witness ==
  /\ lastOp = "disableML5"
  /\ lastRet = "cleared"
  /\ program # Null
  /\ nDetectors = 1 /\ nDetects = 1 /\ nTimers = 1
  /\ Outstanding = 0
  /\ timers = {}
  /\ detectionInterval = Null
  /\ detectionBoxes[0] # 0

\* C23: enableML5() called while detection is enabled, the model still
\* loading or not, changes nothing: no detector is created and no request
\* is sent; an enableML5() that does enable creates exactly one detector
\* and sends no request itself.
C23_EnableIdempotent ==
  [][ lastOp' = "enableML5"
        => /\ ml5Enabled
                => UNCHANGED <<appVars, glVars, bufferVars, statVars, loopVars,
                               hostVars, initPc, swaps, frame, gen>>
           /\ (~ml5Enabled /\ ml5Enabled')
                => /\ nDetectors' = nDetectors + 1
                   /\ readyPending' = readyPending \cup {nDetectors'}
                   /\ detector' = nDetectors'
                   /\ UNCHANGED <<inFlight, nDetects, timers>>
    ]_vars

C23_Witness ==
  /\ lastOp = "enableML5"
  /\ lastRet = "none"
  /\ ml5Enabled
  /\ nDetectors = 1
  /\ readyPending = {1}
  /\ nDetects = 0

====
